---- MODULE Spec2Model ----
(***************************************************************************)
(* Summary polling of SidebarProvider                                      *)
(* (src/frontend/src/components/Sidebar/SidebarProvider.tsx, lines 183-284)*)
(*                                                                         *)
(* The provider keeps a React state activeSummaryPolls : Map<meetingId,    *)
(* interval>.  startSummaryPolling and stopSummaryPolling are useCallback  *)
(* closures over the Map of the last render; every change of the Map goes  *)
(* through a functional updater setActiveSummaryPolls(prev => ...), which  *)
(* React queues and applies at the next render.  An effect with dependency *)
(* [activeSummaryPolls] returns a cleanup that clears every interval of    *)
(* the Map it was created with; React runs that cleanup when the           *)
(* dependency changes and when the provider unmounts.                      *)
(*                                                                         *)
(* Each startSummaryPolling call creates one interval with its own closure *)
(* (meetingId, onUpdate, pollCount).  Intervals are numbered 1, 2, ... in  *)
(* the order of creation; 0 stands for "no interval".  The callback of a   *)
(* start is identified with the interval that start created.               *)
(***************************************************************************)
EXTENDS Integers, Sequences, FiniteSets, TLC

\* ------------------------------------------------------------- bounds
\* number of startSummaryPolling calls explored
MaxTimers == 2
\* firings per interval explored under Spec (SpecSeq runs to MAX_POLLS)
MaxTicks == 2
\* updaters React leaves queued before it renders
MaxQueue == 2

\* ---------------------------------------------------- program constants
\* const MAX_POLLS = 120
MAX_POLLS == 120

\* meetingId values callers pass; the empty string is one of them
Keys == {"", "m1", "m2"}
\* the keys of meetings
MeetingKeys == Keys \ {""}
Timers == 1..MaxTimers
NoTimer == 0

\* wire-level statuses api_get_summary can answer with
StatusKind == {"queued", "processing", "completed", "error", "failed", "idle"}

\* error text of the timeout branch
TimeoutMessage == "Summary generation timed out after 10 minutes. Please try again or check your model configuration."

\* values a rejected invoke can carry: an Error object or any other value
Failures == {[isError |-> TRUE, message |-> "boom"], [isError |-> FALSE, message |-> "boom"]}

\* result record the backend answers with for a status
FetchResult(s) == [status |-> s, error |-> IF s \in {"error", "failed"} THEN "backend" ELSE ""]

VARIABLES
    activeSummaryPolls, \* the Map of the last render: Keys -> interval or NoTimer
    queue,              \* updaters passed to setActiveSummaryPolls, not yet rendered
    mounted,            \* the provider is mounted
    nextId,             \* number of the next interval setInterval returns
    running,            \* interval -> it is scheduled (created and not cleared)
    timerKey,           \* interval -> meetingId of its closure
    pollCount,          \* interval -> pollCount of its closure
    inflight,           \* invoke('api_get_summary') promises not yet settled
    calls,              \* interval -> number of onUpdate invocations so far
    lastCall,           \* the last onUpdate invocation: whose callback, which record
    timeoutCalls,       \* interval -> number of onUpdate calls with the timeout record
    cancelledBy,        \* interval -> the call that cleared it while it ran
    retired,            \* interval -> its own callback took a stopping branch
    stopReturned,       \* the key of the stopSummaryPolling call that just returned
    effects,            \* what the last call or callback run called, in program order
    delivered           \* interval -> firing whose fetched record onUpdate got last

vars == <<activeSummaryPolls, queue, mounted, nextId, running, timerKey, pollCount,
          inflight, calls, lastCall, timeoutCalls, cancelledBy, retired, stopReturned,
          effects, delivered>>

\* the values the state ranges over
TypeOK ==
    /\ activeSummaryPolls \in [Keys -> Timers \cup {NoTimer}]
    /\ queue \in Seq([op : {"set", "delete"}, key : Keys, id : Timers \cup {NoTimer},
                      by : {"start", "stop", "tick"}])
    /\ mounted \in BOOLEAN
    /\ nextId \in 1..(MaxTimers + 1)
    /\ running \in [Timers -> BOOLEAN]
    /\ timerKey \in [Timers -> Keys]
    /\ pollCount \in [Timers -> 0..MAX_POLLS]
    /\ inflight \subseteq [id : Timers, tick : 1..MAX_POLLS]
    /\ calls \in [Timers -> Nat]
    /\ lastCall \in [cb : Timers \cup {NoTimer},
                      status : StatusKind \cup {"none"},
                      error : {"", "backend", "boom", "Unknown error", TimeoutMessage}]
    /\ timeoutCalls \in [Timers -> Nat]
    /\ cancelledBy \in [Timers -> {"none", "start", "stop"}]
    /\ retired \in [Timers -> BOOLEAN]
    /\ stopReturned \subseteq Keys
    /\ effects \in Seq({"setInterval", "clearInterval", "setActiveSummaryPolls",
                        "invoke", "onUpdate"})
    /\ delivered \in [Timers -> 0..MAX_POLLS]

\* ------------------------------------------------------------ helpers

\* clearInterval(id)
clearInterval(r, t) == [r EXCEPT ![t] = FALSE]

\* prev => new Map(prev).set(meetingId, pollInterval)
SetUpdater(k, t, who) == [op |-> "set", key |-> k, id |-> t, by |-> who]

\* prev => { const next = new Map(prev); next.delete(meetingId); return next; }
DeleteUpdater(k, who) == [op |-> "delete", key |-> k, id |-> NoTimer, by |-> who]

\* one updater applied to a Map
ApplyUpdater(m, u) == [m EXCEPT ![u.key] = IF u.op = "set" THEN u.id ELSE NoTimer]

\* the updaters of a queue applied in order
RECURSIVE ApplyAll(_, _)
ApplyAll(m, q) == IF q = <<>> THEN m ELSE ApplyAll(ApplyUpdater(m, Head(q)), Tail(q))

\* setActiveSummaryPolls(updater): queued while mounted, dropped after unmount
setActiveSummaryPolls(q, u) == IF mounted THEN Append(q, u) ELSE q

\* the registry as the program has written it: the rendered Map with the
\* queued updaters applied
Registry == ApplyAll(activeSummaryPolls, queue)

\* all intervals held by a Map
Held(m) == {m[k] : k \in Keys} \ {NoTimer}

\* clearInterval on every interval of a set
ClearAll(r, S) == [t \in Timers |-> IF t \in S THEN FALSE ELSE r[t]]

\* onUpdate(rec) of the callback of interval t
onUpdate(t, rec) ==
    /\ calls' = [calls EXCEPT ![t] = @ + 1]
    /\ lastCall' = [cb |-> t, status |-> rec.status, error |-> rec.error]

\* mutant of IsTimeout: the comparison is strict
IsTimeoutStrict(n) == n > MAX_POLLS

\* pollCount >= MAX_POLLS
IsTimeout(n) == n >= MAX_POLLS

\* mutant of IsTerminal: 'failed' is not recognised
IsTerminalNoFailed(s) == s \in {"completed", "error"}

\* result.status === 'completed' || 'error' || 'failed'
IsTerminal(s) == s \in {"completed", "error", "failed"}

\* mutant of IdleStops: the first poll is not exempted
IdleStopsAlways(s, n) == s = "idle"

\* result.status === 'idle' && pollCount > 1
IdleStops(s, n) == s = "idle" /\ n > 1

\* error instanceof Error ? error.message : 'Unknown error'
FailureMessage(e) == IF e.isError THEN e.message ELSE "Unknown error"

\* mutant of TimeoutEffects: the callback is told before the interval is cleared
TimeoutEffectsCallbackFirst == <<"onUpdate", "clearInterval", "setActiveSummaryPolls">>

\* the calls of the timeout branch, in the order of its statements
TimeoutEffects == <<"clearInterval", "setActiveSummaryPolls", "onUpdate">>

\* the calls of a branch that stops the poll after the await
StopEffects == <<"clearInterval", "setActiveSummaryPolls">>

\* ---------------------------------------------------------------- Init

Init ==
    /\ activeSummaryPolls = [k \in Keys |-> NoTimer]
    /\ queue = <<>>
    /\ mounted = TRUE
    /\ nextId = 1
    /\ running = [t \in Timers |-> FALSE]
    /\ timerKey = [t \in Timers |-> "m1"]
    /\ pollCount = [t \in Timers |-> 0]
    /\ inflight = {}
    /\ calls = [t \in Timers |-> 0]
    /\ lastCall = [cb |-> NoTimer, status |-> "none", error |-> ""]
    /\ timeoutCalls = [t \in Timers |-> 0]
    /\ cancelledBy = [t \in Timers |-> "none"]
    /\ retired = [t \in Timers |-> FALSE]
    /\ stopReturned = {}
    /\ effects = <<>>
    /\ delivered = [t \in Timers |-> 0]

\* ------------------------------------------------------------- actions

\* startSummaryPolling(meetingId = k, processId, onUpdate)
startSummaryPolling(k) ==
    /\ mounted
    /\ nextId <= MaxTimers
    /\ LET old == activeSummaryPolls[k]
           r1 == IF old # NoTimer THEN clearInterval(running, old) ELSE running
       IN  /\ running' = [r1 EXCEPT ![nextId] = TRUE]
           /\ cancelledBy' = IF old # NoTimer /\ running[old]
                             THEN [cancelledBy EXCEPT ![old] = "start"]
                             ELSE cancelledBy
    /\ timerKey' = [timerKey EXCEPT ![nextId] = k]
    /\ pollCount' = [pollCount EXCEPT ![nextId] = 0]
    /\ queue' = setActiveSummaryPolls(queue, SetUpdater(k, nextId, "start"))
    /\ nextId' = nextId + 1
    /\ stopReturned' = {}
    /\ effects' = (IF activeSummaryPolls[k] # NoTimer THEN <<"clearInterval">> ELSE <<>>)
                   \o <<"setInterval", "setActiveSummaryPolls">>
    /\ UNCHANGED <<activeSummaryPolls, mounted, inflight, calls, lastCall, timeoutCalls,
                   retired, delivered>>

\* mutant of stopSummaryPolling: it clears with the loop of the unmount cleanup
stopSummaryPollingClearsAll(k) ==
    /\ mounted
    /\ running' = ClearAll(running, Held(activeSummaryPolls))
    /\ queue' = setActiveSummaryPolls(queue, DeleteUpdater(k, "stop"))
    /\ stopReturned' = {k}
    /\ effects' = StopEffects
    /\ UNCHANGED <<activeSummaryPolls, mounted, nextId, timerKey, pollCount, inflight,
                   calls, lastCall, timeoutCalls, cancelledBy, retired, delivered>>

\* stopSummaryPolling(meetingId = k)
stopSummaryPolling(k) ==
    /\ mounted
    /\ LET t == activeSummaryPolls[k]
       IN  IF t # NoTimer
           THEN /\ running' = clearInterval(running, t)
                /\ queue' = setActiveSummaryPolls(queue, DeleteUpdater(k, "stop"))
                /\ cancelledBy' = IF running[t]
                                  THEN [cancelledBy EXCEPT ![t] = "stop"]
                                  ELSE cancelledBy
                /\ effects' = StopEffects
           ELSE /\ effects' = <<>>
                /\ UNCHANGED <<running, queue, cancelledBy>>
    /\ stopReturned' = {k}
    /\ UNCHANGED <<activeSummaryPolls, mounted, nextId, timerKey, pollCount, inflight,
                   calls, lastCall, timeoutCalls, retired, delivered>>

\* mutant of Tick: a firing that finds a fetch of its interval pending returns at once
TickSkipsWhenBusy(t) ==
    /\ running[t]
    /\ IF \E f \in inflight : f.id = t
       THEN UNCHANGED <<pollCount, running, queue, inflight, calls, lastCall,
                        timeoutCalls, retired>>
       ELSE /\ pollCount' = [pollCount EXCEPT ![t] = @ + 1]
            /\ IF IsTimeout(pollCount[t] + 1)
               THEN /\ running' = clearInterval(running, t)
                    /\ queue' = setActiveSummaryPolls(queue, DeleteUpdater(timerKey[t], "tick"))
                    /\ onUpdate(t, [status |-> "error", error |-> TimeoutMessage])
                    /\ timeoutCalls' = [timeoutCalls EXCEPT ![t] = @ + 1]
                    /\ retired' = [retired EXCEPT ![t] = TRUE]
                    /\ UNCHANGED inflight
               ELSE /\ inflight' = inflight \cup {[id |-> t, tick |-> pollCount[t] + 1]}
                    /\ UNCHANGED <<running, queue, calls, lastCall, timeoutCalls, retired>>
    /\ stopReturned' = {}
    /\ effects' = <<>>
    /\ UNCHANGED <<activeSummaryPolls, mounted, nextId, timerKey, cancelledBy, delivered>>

\* mutant of Tick: the timeout branch does not clear the interval
TickKeepsRunning(t) ==
    /\ running[t]
    /\ pollCount' = [pollCount EXCEPT ![t] = @ + 1]
    /\ IF IsTimeout(pollCount[t] + 1)
       THEN /\ queue' = setActiveSummaryPolls(queue, DeleteUpdater(timerKey[t], "tick"))
            /\ onUpdate(t, [status |-> "error", error |-> TimeoutMessage])
            /\ timeoutCalls' = [timeoutCalls EXCEPT ![t] = @ + 1]
            /\ retired' = [retired EXCEPT ![t] = TRUE]
            /\ effects' = <<"setActiveSummaryPolls", "onUpdate">>
            /\ UNCHANGED inflight
       ELSE /\ inflight' = inflight \cup {[id |-> t, tick |-> pollCount[t] + 1]}
            /\ effects' = <<"invoke">>
            /\ UNCHANGED <<queue, calls, lastCall, timeoutCalls, retired>>
    /\ stopReturned' = {}
    /\ UNCHANGED <<activeSummaryPolls, mounted, nextId, running, timerKey, cancelledBy,
                   delivered>>

\* the interval callback up to its return or its await
Tick(t) ==
    /\ running[t]
    /\ pollCount' = [pollCount EXCEPT ![t] = @ + 1]
    /\ IF IsTimeout(pollCount[t] + 1)
       THEN /\ running' = clearInterval(running, t)
            /\ queue' = setActiveSummaryPolls(queue, DeleteUpdater(timerKey[t], "tick"))
            /\ onUpdate(t, [status |-> "error", error |-> TimeoutMessage])
            /\ timeoutCalls' = [timeoutCalls EXCEPT ![t] = @ + 1]
            /\ retired' = [retired EXCEPT ![t] = TRUE]
            /\ effects' = TimeoutEffects
            /\ UNCHANGED inflight
       ELSE /\ inflight' = inflight \cup {[id |-> t, tick |-> pollCount[t] + 1]}
            /\ effects' = <<"invoke">>
            /\ UNCHANGED <<running, queue, calls, lastCall, timeoutCalls, retired>>
    /\ stopReturned' = {}
    /\ UNCHANGED <<activeSummaryPolls, mounted, nextId, timerKey, cancelledBy, delivered>>

\* mutant of Resolve: onUpdate is called in the branch that keeps polling only
ResolveQuietTerminal(f, s) ==
    /\ f \in inflight
    /\ inflight' = inflight \ {f}
    /\ IF IsTerminal(s) \/ IdleStops(s, pollCount[f.id])
       THEN /\ running' = clearInterval(running, f.id)
            /\ queue' = setActiveSummaryPolls(queue, DeleteUpdater(timerKey[f.id], "tick"))
            /\ retired' = [retired EXCEPT ![f.id] = TRUE]
            /\ effects' = StopEffects
            /\ UNCHANGED <<calls, lastCall, delivered>>
       ELSE /\ onUpdate(f.id, FetchResult(s))
            /\ delivered' = [delivered EXCEPT ![f.id] = f.tick]
            /\ effects' = <<"onUpdate">>
            /\ UNCHANGED <<running, queue, retired>>
    /\ stopReturned' = {}
    /\ UNCHANGED <<activeSummaryPolls, mounted, nextId, timerKey, pollCount,
                   timeoutCalls, cancelledBy>>

\* the interval callback after its await, when invoke resolved with status s
Resolve(f, s) ==
    /\ f \in inflight
    /\ inflight' = inflight \ {f}
    /\ onUpdate(f.id, FetchResult(s))
    /\ delivered' = [delivered EXCEPT ![f.id] = f.tick]
    /\ IF IsTerminal(s) \/ IdleStops(s, pollCount[f.id])
       THEN /\ running' = clearInterval(running, f.id)
            /\ queue' = setActiveSummaryPolls(queue, DeleteUpdater(timerKey[f.id], "tick"))
            /\ retired' = [retired EXCEPT ![f.id] = TRUE]
            /\ effects' = <<"onUpdate">> \o StopEffects
       ELSE /\ effects' = <<"onUpdate">>
            /\ UNCHANGED <<running, queue, retired>>
    /\ stopReturned' = {}
    /\ UNCHANGED <<activeSummaryPolls, mounted, nextId, timerKey, pollCount,
                   timeoutCalls, cancelledBy>>

\* the interval callback after its await, when invoke resolved with status s
\* and onUpdate(result) throws e: the catch branch runs; again says whether
\* onUpdate throws on the error record as well, which ends the callback there
ResolveThrows(f, s, e, again) ==
    /\ f \in inflight
    /\ inflight' = inflight \ {f}
    /\ calls' = [calls EXCEPT ![f.id] = @ + 2]
    /\ lastCall' = [cb |-> f.id, status |-> "error", error |-> FailureMessage(e)]
    /\ delivered' = [delivered EXCEPT ![f.id] = f.tick]
    /\ IF again
       THEN /\ effects' = <<"onUpdate", "onUpdate">>
            /\ UNCHANGED <<running, queue, retired>>
       ELSE /\ running' = clearInterval(running, f.id)
            /\ queue' = setActiveSummaryPolls(queue, DeleteUpdater(timerKey[f.id], "tick"))
            /\ retired' = [retired EXCEPT ![f.id] = TRUE]
            /\ effects' = <<"onUpdate", "onUpdate">> \o StopEffects
    /\ stopReturned' = {}
    /\ UNCHANGED <<activeSummaryPolls, mounted, nextId, timerKey, pollCount,
                   timeoutCalls, cancelledBy>>

\* mutant of Reject: the catch branch reports the error and keeps polling
RejectRetries(f, e) ==
    /\ f \in inflight
    /\ inflight' = inflight \ {f}
    /\ onUpdate(f.id, [status |-> "error", error |-> FailureMessage(e)])
    /\ stopReturned' = {}
    /\ effects' = <<"onUpdate">>
    /\ UNCHANGED <<activeSummaryPolls, queue, mounted, nextId, running, timerKey,
                   pollCount, timeoutCalls, cancelledBy, retired, delivered>>

\* the interval callback after its await, when invoke rejected with e
Reject(f, e) ==
    /\ f \in inflight
    /\ inflight' = inflight \ {f}
    /\ onUpdate(f.id, [status |-> "error", error |-> FailureMessage(e)])
    /\ running' = clearInterval(running, f.id)
    /\ queue' = setActiveSummaryPolls(queue, DeleteUpdater(timerKey[f.id], "tick"))
    /\ retired' = [retired EXCEPT ![f.id] = TRUE]
    /\ stopReturned' = {}
    /\ effects' = <<"onUpdate">> \o StopEffects
    /\ UNCHANGED <<activeSummaryPolls, mounted, nextId, timerKey, pollCount,
                   timeoutCalls, cancelledBy, delivered>>

\* React renders the queued updaters; the dependency of the cleanup effect
\* changed, so the cleanup of the previous render runs on the previous Map
Render ==
    /\ mounted
    /\ queue # <<>>
    /\ activeSummaryPolls' = ApplyAll(activeSummaryPolls, queue)
    /\ queue' = <<>>
    /\ running' = ClearAll(running, Held(activeSummaryPolls))
    /\ stopReturned' = {}
    /\ effects' = <<>>
    /\ UNCHANGED <<mounted, nextId, timerKey, pollCount, inflight, calls, lastCall,
                   timeoutCalls, cancelledBy, retired, delivered>>

\* the provider unmounts: the cleanup of the last render runs, the state is gone
Unmount ==
    /\ mounted
    /\ mounted' = FALSE
    /\ running' = ClearAll(running, Held(activeSummaryPolls))
    /\ activeSummaryPolls' = [k \in Keys |-> NoTimer]
    /\ queue' = <<>>
    /\ stopReturned' = {}
    /\ effects' = <<>>
    /\ UNCHANGED <<nextId, timerKey, pollCount, inflight, calls, lastCall,
                   timeoutCalls, cancelledBy, retired>>
    /\ UNCHANGED delivered

\* -------------------------------------------------------- specifications

\* React renders before more than MaxQueue updaters are queued
CanQueue == Len(queue) < MaxQueue

\* any interleaving of calls, interval firings, fetch completions and renders,
\* each interval followed for MaxTicks firings
Next ==
    \/ \E k \in MeetingKeys : CanQueue /\ startSummaryPolling(k)
    \/ \E k \in MeetingKeys : CanQueue /\ stopSummaryPolling(k)
    \/ \E t \in Timers : CanQueue /\ pollCount[t] < MaxTicks /\ Tick(t)
    \/ \E f \in inflight, s \in StatusKind : CanQueue /\ Resolve(f, s)
    \/ \E f \in inflight, e \in Failures : CanQueue /\ Reject(f, e)
    \/ Render
    \/ Unmount

Spec == Init /\ [][Next]_vars

\* the same, with callers that also pass the empty key
NextAnyKey ==
    \/ \E k \in Keys : CanQueue /\ startSummaryPolling(k)
    \/ \E k \in Keys : CanQueue /\ stopSummaryPolling(k)
    \/ \E t \in Timers : CanQueue /\ pollCount[t] < MaxTicks /\ Tick(t)
    \/ \E f \in inflight, s \in StatusKind : CanQueue /\ Resolve(f, s)
    \/ \E f \in inflight, e \in Failures : CanQueue /\ Reject(f, e)
    \/ Render
    \/ Unmount

SpecAnyKey == Init /\ [][NextAnyKey]_vars

\* several polls, each followed up to the answer of its first fetch, with
\* one fetch pending at a time
NextFirst ==
    \/ \E k \in MeetingKeys : CanQueue /\ startSummaryPolling(k)
    \/ \E k \in MeetingKeys : CanQueue /\ stopSummaryPolling(k)
    \/ \E t \in Timers : CanQueue /\ inflight = {} /\ pollCount[t] = 0 /\ Tick(t)
    \/ \E f \in inflight, s \in StatusKind : CanQueue /\ Resolve(f, s)
    \/ \E f \in inflight, e \in Failures : CanQueue /\ Reject(f, e)
    \/ Render
    \/ Unmount

SpecFirst == Init /\ [][NextFirst]_vars

\* one poll followed over its whole life: a single start, and every fetch
\* settles before the interval fires again
NextSeq ==
    \/ CanQueue /\ nextId = 1 /\ startSummaryPolling("m1")
    \/ CanQueue /\ stopSummaryPolling("m1")
    \/ \E t \in Timers : CanQueue /\ inflight = {} /\ Tick(t)
    \/ \E f \in inflight, s \in StatusKind : CanQueue /\ Resolve(f, s)
    \/ \E f \in inflight, e \in Failures : CanQueue /\ Reject(f, e)
    \/ Render
    \/ Unmount

SpecSeq == Init /\ [][NextSeq]_vars

\* every fetch of a firing after the first MaxTicks has settled
LateSettled == \A f \in inflight : f.tick <= MaxTicks

\* one poll followed over its whole life with slow fetches: the fetches of the
\* first MaxTicks firings settle at any later time or never, the interval
\* fires meanwhile
NextSlow ==
    \/ CanQueue /\ nextId = 1 /\ startSummaryPolling("m1")
    \/ CanQueue /\ stopSummaryPolling("m1")
    \/ \E t \in Timers : CanQueue /\ LateSettled /\ Tick(t)
    \/ \E f \in inflight, s \in StatusKind : CanQueue /\ Resolve(f, s)
    \/ \E f \in inflight, e \in Failures : CanQueue /\ Reject(f, e)
    \/ Render
    \/ Unmount

SpecSlow == Init /\ [][NextSlow]_vars

\* several polls followed up to the answer of their first fetch, with
\* callbacks that may throw
NextThrow ==
    \/ \E k \in MeetingKeys : CanQueue /\ startSummaryPolling(k)
    \/ \E k \in MeetingKeys : CanQueue /\ stopSummaryPolling(k)
    \/ \E t \in Timers : CanQueue /\ inflight = {} /\ pollCount[t] = 0 /\ Tick(t)
    \/ \E f \in inflight, s \in StatusKind : CanQueue /\ Resolve(f, s)
    \/ \E f \in inflight, s \in StatusKind, e \in Failures, again \in BOOLEAN :
           CanQueue /\ ResolveThrows(f, s, e, again)
    \/ \E f \in inflight, e \in Failures : CanQueue /\ Reject(f, e)
    \/ Render
    \/ Unmount

SpecThrow == Init /\ [][NextThrow]_vars

\* ------------------------------------------------------------- claims

\* C1: once stopSummaryPolling(k) has returned, the onUpdate callback of the
\* poll it cancelled is never invoked again, also when a status fetch of that
\* poll was in flight at the stop.
C1_NoCallAfterStop ==
    [][\A t \in Timers : cancelledBy[t] = "stop" => calls'[t] = calls[t]]_vars

\* C2: once startSummaryPolling(k, ...) has replaced an active poll for k, the
\* callback of the replaced poll receives no further call (every later status
\* goes to the new callback), also when a fetch of the old poll was in flight.
C2_NoCallAfterReplace ==
    [][\A t \in Timers : cancelledBy[t] = "start" => calls'[t] = calls[t]]_vars

\* C3: for every key there is at most one running interval, and a key the
\* registry holds maps to exactly one interval.
C3_OneLivePerKey ==
    \A k \in Keys :
        /\ Cardinality({t \in Timers : running[t] /\ timerKey[t] = k}) <= 1
        /\ Registry[k] \in Timers \cup {NoTimer}

\* C4: with two keys polling, stopping the poll of one key (the call and the
\* render of its update) leaves the other key's interval running and its
\* registry entry in place.
C4_StopLeavesOthers ==
    [][\A t \in Timers :
         ( /\ running[t]
           /\ Registry[timerKey[t]] = t
           /\ \/ \E k \in Keys \ {timerKey[t]} : stopSummaryPolling(k)
              \/ /\ Render
                 /\ \A i \in 1..Len(queue) :
                        queue[i].by = "stop" /\ queue[i].key # timerKey[t] )
         => (running'[t] /\ Registry'[timerKey[t]] = t)]_vars

\* C5: every key present in the registry has a running interval.
C5_RegisteredIsRunning ==
    \A k \in Keys : Registry[k] # NoTimer => running[Registry[k]]

\* C6: every running interval is the one the registry holds under its key.
C6_RunningIsRegistered ==
    \A t \in Timers : running[t] => Registry[timerKey[t]] = t

\* C7: a poll that reaches MAX_POLLS firings calls its callback exactly once
\* with the timeout record, on the firing that makes pollCount MAX_POLLS; that
\* firing clears the interval and removes the key, and pollCount never passes
\* MAX_POLLS (no later firing).
C7_TimeoutAtMaxPolls ==
    /\ [](\A t \in Timers :
            /\ pollCount[t] <= MAX_POLLS
            /\ timeoutCalls[t] = (IF pollCount[t] = MAX_POLLS THEN 1 ELSE 0)
            /\ pollCount[t] = MAX_POLLS =>
                   (~running[t] /\ Registry[timerKey[t]] = NoTimer))
    /\ [][\A t \in Timers :
            timeoutCalls'[t] # timeoutCalls[t] =>
                /\ pollCount'[t] = MAX_POLLS
                /\ calls'[t] = calls[t] + 1
                /\ lastCall' = [cb |-> t, status |-> "error", error |-> TimeoutMessage]]_vars

\* the poll timed out after MAX_POLLS - 1 forwarded statuses
C7_Witness ==
    /\ timeoutCalls[1] = 1
    /\ calls[1] = MAX_POLLS
    /\ pollCount[1] = MAX_POLLS
    /\ lastCall = [cb |-> 1, status |-> "error", error |-> TimeoutMessage]
    /\ ~running[1]

\* C8: when the fetch of firing n < MAX_POLLS answers completed, error or
\* failed after the n-1 earlier firings each delivered their status, the
\* callback has been called exactly n times, the n-th time with that record,
\* the interval is cleared and the key is absent from the registry.
C8_TerminalOnTickN ==
    [][\A f \in inflight : \A s \in {"completed", "error", "failed"} :
         (Resolve(f, s) /\ f.tick < MAX_POLLS /\ calls[f.id] = f.tick - 1)
         => /\ calls'[f.id] = f.tick
            /\ lastCall' = [cb |-> f.id, status |-> s, error |-> FetchResult(s).error]
            /\ ~running'[f.id]
            /\ Registry'[timerKey[f.id]] = NoTimer]_vars

\* firing MAX_POLLS - 1 fetched 'failed' after MAX_POLLS - 2 non-terminal answers
C8_Witness ==
    /\ lastCall = [cb |-> 1, status |-> "failed", error |-> "backend"]
    /\ pollCount[1] = MAX_POLLS - 1
    /\ calls[1] = MAX_POLLS - 1
    /\ ~running[1]
    /\ Registry["m1"] = NoTimer

\* C9: a fetched 'idle' is forwarded to the callback; on the first firing
\* (pollCount 1) it leaves the interval and the registry as they are, on a
\* firing with pollCount > 1 it clears the interval and removes the key.
C9_IdleFirstTickOnly ==
    [][\A f \in inflight :
         (Resolve(f, "idle") /\ f.tick = pollCount[f.id])
         => /\ calls'[f.id] = calls[f.id] + 1
            /\ lastCall' = [cb |-> f.id, status |-> "idle", error |-> ""]
            /\ IF f.tick = 1
               THEN running'[f.id] = running[f.id] /\ Registry' = Registry
               ELSE ~running'[f.id] /\ Registry'[timerKey[f.id]] = NoTimer]_vars

\* 'idle' was forwarded on the first firing and the poll is still live
C9_Witness ==
    /\ lastCall = [cb |-> 1, status |-> "idle", error |-> ""]
    /\ pollCount[1] = 1
    /\ calls[1] = 1
    /\ running[1]
    /\ Registry["m1"] = 1

\* C10: a rejected fetch calls the callback once with a record of status
\* 'error', clears the interval and removes the key; a cleared interval never
\* fires again and issues no fetch, so the failure is not retried.
C10_FetchFailureRetires ==
    /\ [][\A f \in inflight, e \in Failures :
            Reject(f, e)
            => /\ calls'[f.id] = calls[f.id] + 1
               /\ lastCall'.cb = f.id
               /\ lastCall'.status = "error"
               /\ ~running'[f.id]
               /\ Registry'[timerKey[f.id]] = NoTimer]_vars
    /\ [][\A t \in Timers :
            (t < nextId /\ ~running[t])
            => /\ ~running'[t]
               /\ pollCount'[t] = pollCount[t]
               /\ \A f \in inflight' \ inflight : f.id # t]_vars

\* the fetch of the first firing was rejected: one call, poll retired
C10_Witness ==
    /\ lastCall = [cb |-> 1, status |-> "error", error |-> "boom"]
    /\ pollCount[1] = 1
    /\ calls[1] = 1
    /\ ~running[1]
    /\ Registry["m1"] = NoTimer
    /\ inflight = {}

\* C11: every poll that is started and neither stopped nor replaced eventually
\* retires.  Stated as the safety condition that liveness needs: while the
\* provider is mounted, a poll that was not stopped or replaced and has not
\* retired can still act (its interval is scheduled or one of its fetches is
\* pending); a poll with neither never calls its callback again.
C11_UnstoppedPollCanRetire ==
    \A t \in Timers :
        (mounted /\ t < nextId /\ cancelledBy[t] = "none" /\ ~retired[t])
        => (running[t] \/ \E f \in inflight : f.id = t)

\* C12: once a poll has retired through its own callback (timeout, terminal
\* status, idle after the first poll, fetch failure), its onUpdate is never
\* invoked again.
C12_RetiredIsAbsorbing ==
    [][\A t \in Timers : retired[t] => calls'[t] = calls[t]]_vars

\* C13: when the registry holds a handle for k, stopSummaryPolling(k) clears
\* that handle's interval and leaves k absent from the registry, also when it
\* is called before the start that created the handle has been rendered.
C13_StopCancelsHandle ==
    [][\A k \in Keys :
         (stopSummaryPolling(k) /\ Registry[k] # NoTimer)
         => (~running'[Registry[k]] /\ Registry'[k] = NoTimer)]_vars

\* C14: stopSummaryPolling(k) for a key with no registry entry and no
\* scheduled interval calls no callback and leaves the registry, every
\* interval, every pollCount and every pending fetch as they were.
C14_StopUnknownKeyIsNoOp ==
    [][\A k \in Keys :
         ( /\ stopSummaryPolling(k)
           /\ Registry[k] = NoTimer
           /\ \A t \in Timers : timerKey[t] = k => ~running[t] )
         => /\ Registry' = Registry
            /\ running' = running
            /\ pollCount' = pollCount
            /\ inflight' = inflight
            /\ calls' = calls
            /\ lastCall' = lastCall
            /\ mounted' = mounted]_vars

\* stop of a key that never had a poll has just returned while another key's
\* poll is registered, scheduled and has fired
C14_Witness ==
    /\ stopReturned = {"m1"}
    /\ \A t \in Timers : t < nextId => timerKey[t] # "m1"
    /\ \E t \in Timers :
           /\ t < nextId
           /\ timerKey[t] = "m2"
           /\ running[t]
           /\ Registry["m2"] = t
           /\ pollCount[t] = 1

\* C15: startSummaryPolling with an empty key creates no handle: no interval
\* carries the empty key and the registry has no entry for it.
C15_EmptyKeyRejected ==
    /\ Registry[""] = NoTimer
    /\ \A t \in Timers : t < nextId => timerKey[t] # ""

\* C16: pollCount of an interval is 0 when the interval is created, changes
\* only when that interval fires, then by exactly one, and never exceeds
\* MAX_POLLS.
C16_TickCounter ==
    /\ [](\A t \in Timers : pollCount[t] \in 0..MAX_POLLS)
    /\ [][\A t \in Timers :
            /\ (t = nextId /\ nextId' # nextId) => pollCount'[t] = 0
            /\ Tick(t) => pollCount'[t] = pollCount[t] + 1
            /\ pollCount'[t] # pollCount[t] =>
                   (running[t] /\ pollCount'[t] = pollCount[t] + 1)]_vars

\* the counter has reached MAX_POLLS and the interval is cleared
C16_Witness ==
    /\ pollCount[1] = MAX_POLLS
    /\ ~running[1]
    /\ inflight = {}

\* C17: after the provider has unmounted no interval is still scheduled.
C17_UnmountClearsAll ==
    ~mounted => \A t \in Timers : ~running[t]

\* C18: the registry entry of a handle is removed only by stopSummaryPolling
\* of its key or by a stopping branch of that handle's own callback, never by
\* the callback of a handle it replaced.
C18_RemovedByOwnEvent ==
    [][\A k \in Keys :
         (mounted' /\ Registry[k] # NoTimer /\ Registry'[k] = NoTimer)
         => \/ stopReturned' = {k}
            \/ /\ calls'[Registry[k]] = calls[Registry[k]] + 1
               /\ retired'[Registry[k]]]_vars

\* C19: every fetch that resolves makes exactly one onUpdate call, with the
\* fetched record as fetched, whether the status keeps the poll going or
\* stops it; no other callback is called.
C19_EveryResultForwarded ==
    [][\A f \in inflight :
         (f \notin inflight' /\ ~(\E e \in Failures : Reject(f, e)))
         => /\ calls' = [calls EXCEPT ![f.id] = @ + 1]
            /\ \E s \in StatusKind :
                   lastCall' = [cb |-> f.id, status |-> FetchResult(s).status,
                                error |-> FetchResult(s).error]]_vars

\* a stopping status was forwarded after a non-stopping one
C19_Witness ==
    /\ lastCall = [cb |-> 1, status |-> "completed", error |-> ""]
    /\ calls[1] = 2
    /\ pollCount[1] = 2
    /\ retired[1]

\* C20: the firing that makes pollCount MAX_POLLS issues no fetch; every other
\* firing issues exactly one, so the fetches of an interval are those of its
\* firings 1 .. MAX_POLLS - 1.
C20_NoFetchOnTimeoutTick ==
    /\ [](\A f \in inflight : f.tick < MAX_POLLS)
    /\ [][\A t \in Timers :
            pollCount'[t] # pollCount[t] =>
                IF pollCount'[t] = MAX_POLLS
                THEN inflight' = inflight
                ELSE inflight' = inflight \cup {[id |-> t, tick |-> pollCount'[t]]}]_vars

\* the timeout firing happened and left no fetch pending
C20_Witness ==
    /\ pollCount[1] = MAX_POLLS
    /\ retired[1]
    /\ lastCall.error = TimeoutMessage
    /\ inflight = {}

\* C21: on the firing that makes pollCount MAX_POLLS the callback is called
\* with the timeout record first, then the interval is cleared, then the key
\* is removed from the registry.
C21_TimeoutCallbackFirst ==
    [][\A t \in Timers :
         (pollCount'[t] # pollCount[t] /\ pollCount'[t] = MAX_POLLS)
         => effects' = <<"onUpdate", "clearInterval", "setActiveSummaryPolls">>]_vars

\* C21 as amended: on that firing the interval is cleared first, then the
\* removal of the key is handed to setActiveSummaryPolls, then the callback is
\* called with the timeout record.
C21_TimeoutOrder ==
    [][\A t \in Timers :
         (pollCount'[t] # pollCount[t] /\ pollCount'[t] = MAX_POLLS)
         => /\ effects' = <<"clearInterval", "setActiveSummaryPolls", "onUpdate">>
            /\ ~running'[t]
            /\ mounted => Registry'[timerKey[t]] = NoTimer
            /\ lastCall' = [cb |-> t, status |-> "error", error |-> TimeoutMessage]]_vars

\* the timeout firing has just run
C21_Witness ==
    /\ pollCount[1] = MAX_POLLS
    /\ timeoutCalls[1] = 1
    /\ effects = <<"clearInterval", "setActiveSummaryPolls", "onUpdate">>
    /\ mounted

\* C22: every step that removes a key from the registry has cleared the
\* interval before it asks for the removal, and in no state of the mounted
\* provider is an interval still scheduled while its key has no registry entry.
C22_ClearedBeforeRemoved ==
    /\ [][(Len(queue') > Len(queue) /\ queue'[Len(queue')].op = "delete")
          => \E i, j \in 1..Len(effects') :
                 /\ i < j
                 /\ effects'[i] = "clearInterval"
                 /\ effects'[j] = "setActiveSummaryPolls"]_vars
    /\ [](\A t \in Timers :
             (mounted /\ t < nextId /\ running[t]) => Registry[timerKey[t]] # NoTimer)

\* C23: when a fetch rejects, the callback gets status 'error' with the
\* message of the failure as error text, whether the value the fetch rejected
\* with is an Error object or not.
C23_FailureMessageForwarded ==
    [][\A f \in inflight, e \in Failures :
         Reject(f, e)
         => lastCall' = [cb |-> f.id, status |-> "error", error |-> e.message]]_vars

\* C24: the timeout depends on the number of firings only: pollCount advances
\* by one on every firing and never on the completion of a fetch, and the
\* firing that makes it MAX_POLLS delivers the timeout record, also while
\* fetches of earlier firings are still pending.
C24_TimeoutByFirings ==
    [][\A t \in Timers :
         /\ Tick(t) => pollCount'[t] = pollCount[t] + 1
         /\ (\E f \in inflight : f \notin inflight') => pollCount' = pollCount
         /\ (pollCount'[t] # pollCount[t] /\ pollCount'[t] = MAX_POLLS)
            => /\ timeoutCalls'[t] = timeoutCalls[t] + 1
               /\ lastCall' = [cb |-> t, status |-> "error", error |-> TimeoutMessage]
               /\ inflight' = inflight]_vars

\* the timeout record was delivered while the fetch of the first firing never
\* settled
C24_Witness ==
    /\ pollCount[1] = MAX_POLLS
    /\ timeoutCalls[1] = 1
    /\ lastCall.error = TimeoutMessage
    /\ [id |-> 1, tick |-> 1] \in inflight
    /\ cancelledBy[1] = "none"

\* C25: an interval never has two fetches pending at the same time.
C25_OneFetchInFlight ==
    \A f, g \in inflight : f.id = g.id => f = g

\* C26: the callback of an interval receives fetched records in the order of
\* the firings that fetched them.
C26_DeliveredInOrder ==
    [][\A t \in Timers : delivered'[t] # delivered[t] => delivered'[t] > delivered[t]]_vars

\* C27: a fetched status is classified with the count of the firing that
\* issued the fetch: an 'idle' answer to the fetch of firing 1 keeps the poll
\* going whenever it arrives.
C27_ClassifiedByOwnTick ==
    [][\A f \in inflight :
         (f.tick = 1 /\ Resolve(f, "idle"))
         => /\ running'[f.id] = running[f.id]
            /\ retired'[f.id] = retired[f.id]
            /\ queue' = queue]_vars

\* C28: one run of the interval callback calls onUpdate at most once, also
\* when onUpdate throws, and a throw of onUpdate on a status that keeps the
\* poll going neither stops the poll nor causes a second call.
C28_CallbackThrowIsNotFailure ==
    [][/\ \A t \in Timers : calls'[t] <= calls[t] + 1
       /\ \A f \in inflight, s \in StatusKind, e \in Failures, again \in BOOLEAN :
              ( /\ ResolveThrows(f, s, e, again)
                /\ ~IsTerminal(s)
                /\ ~IdleStops(s, pollCount[f.id]) )
              => /\ running' = running
                 /\ retired' = retired
                 /\ lastCall'.status # "error"]_vars

\* C29: a change of the registry leaves the interval of every handle that
\* stays in the registry scheduled: the cleanup that runs when the registry
\* state changes clears no interval the new registry still holds.
C29_RenderKeepsRegistered ==
    [][\A t \in Timers :
         ( /\ Render
           /\ running[t]
           /\ activeSummaryPolls[timerKey[t]] = t
           /\ activeSummaryPolls'[timerKey[t]] = t )
         => running'[t]]_vars

\* C30: a start for a key that already has a handle in the registry clears
\* that handle's interval, also when the handle was installed by a start the
\* provider has not rendered yet.
C30_RestartClearsPrevious ==
    [][\A k \in Keys :
         (startSummaryPolling(k) /\ Registry[k] # NoTimer)
         => ~running'[Registry[k]]]_vars

====
